---------------------------- MODULE Spec2Model ----------------------------
(***************************************************************************)
(* A model of the number-theory and range utilities of CppLibrary:         *)
(*   src/math/prime.cc   modmul, modpow, miller_rabin, pollard, factor     *)
(*   src/range/Fenwick.cc  Fenwick tree (point update, prefix sum)         *)
(*   src/math/isieve.cc  linear sieve over global buffers                  *)
(* Each routine is a separate program; every specification below runs one  *)
(* of them and leaves the variables of the others untouched.               *)
(***************************************************************************)
EXTENDS Integers, Sequences, FiniteSets

VARIABLES
    \* ---- modpow (prime.cc:22-27) ----
    mp_b, mp_e, mp_mod, mp_pc, mp_res,
    \* ---- miller_rabin (prime.cc:39-50) ----
    mr_n, mr_pc, mr_k, mr_p, mr_i, mr_sq, mr_p0, mr_res,
    \* ---- factor / pollard (prime.cc:91-108) ----
    f_n0, stack, ret, f_pc, px, py, pt, prd, pi,
    \* ---- Fenwick (Fenwick.cc) ----
    data, len, ref, nupd,
    \* ---- linear sieve (isieve.cc) ----
    primes, spf, is_prime, sv_N, ncalls

mpvars == <<mp_b, mp_e, mp_mod, mp_pc, mp_res>>
mrvars == <<mr_n, mr_pc, mr_k, mr_p, mr_i, mr_sq, mr_p0, mr_res>>
fvars  == <<f_n0, stack, ret, f_pc, px, py, pt, prd, pi>>
fwvars == <<data, len, ref, nupd>>
svvars == <<primes, spf, is_prime, sv_N, ncalls>>
vars   == <<mpvars, mrvars, fvars, fwvars, svvars>>

(***************************************************************************)
(* Bounds of the model.                                                    *)
(***************************************************************************)
\* largest modulus and exponent given to modpow
MaxMod == 7
MaxExp == 9
\* largest n given to miller_rabin
MaxMR == 5000
\* largest n given to factor
MaxFactor == 800
\* cap on pollard's loop counter t and on the depth of factor's recursion
MaxT == 90
MaxDepth == 11
\* Fenwick: largest length, number of upd calls after construction
MaxLen == 4
MaxUpd == 2
\* Fenwick: the elements and the values added lie in -MaxVal..MaxVal
MaxVal == 1
\* sieve: largest N, number of calls
MaxSieve == 7
MaxCalls == 3

(***************************************************************************)
(* Programs that are not running sit in these values.                      *)
(***************************************************************************)
IdleModpow == mp_b = 0 /\ mp_e = 0 /\ mp_mod = 1 /\ mp_pc = "idle" /\ mp_res = 0
IdleMR == /\ mr_n = 0 /\ mr_pc = "idle" /\ mr_k = 0 /\ mr_p = 0 /\ mr_i = 0
          /\ mr_sq = 0 /\ mr_p0 = 0 /\ mr_res = FALSE
IdleFactor == /\ f_n0 = 0 /\ stack = <<>> /\ ret = <<>> /\ f_pc = "idle"
              /\ px = 0 /\ py = 0 /\ pt = 0 /\ prd = 0 /\ pi = 0
IdleFenwick == data = <<>> /\ len = 0 /\ ref = <<>> /\ nupd = 0
IdleSieve == /\ primes = <<>> /\ spf = <<>> /\ is_prime = <<>>
             /\ sv_N = 0 /\ ncalls = 0

(***************************************************************************)
(* Ground truth used by the properties (not code of the repository).       *)
(***************************************************************************)
Divides(d, n) == d # 0 /\ n % d = 0
IsPrime(n) == n >= 2 /\ \A k \in 2..(n - 1) : n % k # 0
RECURSIVE RefPowMod(_, _, _)
RefPowMod(b, e, m) == IF e = 0 THEN 1 % m ELSE (b * RefPowMod(b, e - 1, m)) % m
RECURSIVE Product(_)
Product(s) == IF s = <<>> THEN 1 ELSE Head(s) * Product(Tail(s))
RECURSIVE FloorLog2(_)
FloorLog2(n) == IF n < 2 THEN 0 ELSE 1 + FloorLog2(n \div 2)
RECURSIVE TwoAdic(_)
TwoAdic(m) == IF m = 0 \/ m % 2 = 1 THEN 0 ELSE 1 + TwoAdic(m \div 2)

(***************************************************************************)
(* prime.cc: modmul, modpow                                                *)
(***************************************************************************)
\* (__uint128_t)a * b % M : the product is exact
modmul(a, b, M) == (a * b) % M

\* the for loop of modpow from the state (ans, b, e)
RECURSIVE modpowLoop(_, _, _, _)
modpowLoop(ans, b, e, mod) ==
    IF e = 0 THEN ans
    ELSE modpowLoop(IF e % 2 = 1 THEN modmul(ans, b, mod) ELSE ans,
                    modmul(b, b, mod), e \div 2, mod)

modpow(b, e, mod) == modpowLoop(1, b, e, mod)

InitModpow ==
    /\ mp_mod \in 1..MaxMod
    /\ mp_b \in 0..(mp_mod - 1)
    /\ mp_e \in 0..MaxExp
    /\ mp_pc = "call"
    /\ mp_res = 0
    /\ IdleMR /\ IdleFactor /\ IdleFenwick /\ IdleSieve

ModpowCall ==
    /\ mp_pc = "call"
    /\ mp_res' = modpow(mp_b, mp_e, mp_mod)
    /\ mp_pc' = "done"
    /\ UNCHANGED <<mp_b, mp_e, mp_mod, mrvars, fvars, fwvars, svvars>>

NextModpow == ModpowCall
SpecModpow == InitModpow /\ [][NextModpow]_vars

\* C5: for every modulus m >= 1, base 0 <= b < m and exponent e >= 0,
\* modpow(b, e, m) equals b^e mod m (for e = 0: 1 mod m).
C5_ModpowIsPowerMod ==
    mp_pc = "done" => mp_res = RefPowMod(mp_b, mp_e, mp_mod)

\* The same statement for moduli m >= 2, where 1 mod m = 1.
ModpowIsPowerModFrom2 ==
    (mp_pc = "done" /\ mp_mod >= 2) => mp_res = RefPowMod(mp_b, mp_e, mp_mod)

(***************************************************************************)
(* prime.cc: miller_rabin                                                  *)
(***************************************************************************)
\* ull A[] = {...}
A == <<2, 325, 9375, 28178, 450775, 9780504, 1795265022>>

\* __builtin_ctzll(m) for m > 0
RECURSIVE ctzll(_)
ctzll(m) == IF m % 2 = 1 THEN 0 ELSE 1 + ctzll(m \div 2)

RECURSIVE Pow2(_)
Pow2(k) == IF k = 0 THEN 1 ELSE 2 * Pow2(k - 1)

\* s = __builtin_ctzll(n-1), d = n >> s
mrS(n) == ctzll(n - 1)
mrD(n) == n \div Pow2(mrS(n))

\* if (n < 2 || n % 6 % 4 != 1): the small cases are answered at once
mrSmall(n) == n < 2 \/ (n % 6) % 4 # 1
\* return (n | 1) == 3;  n | 1 sets the lowest bit
mrSmallResult(n) == (IF n % 2 = 0 THEN n + 1 ELSE n) = 3

\* The unsigned counter i after i--: 0 wraps to 2^64 - 1, which is written
\* -1 here (it is only ever compared with s <= 63).
iDec(i) == i - 1

\* faulty variant: the head without "&& a % n", so a witness that is a multiple of n
\* is not skipped
whileHeadNoSkip(p, a, n) == p # 1 /\ p # n - 1
\* p != 1 && p != n - 1 && a % n : the part of the while condition before i--
whileHead(p, a, n) == p # 1 /\ p # n - 1 /\ a % n # 0
\* faulty variant: a signed counter tested with i-- >= 0, which squares once more
whileCondSigned(p, i, a, n) == whileHead(p, a, n) /\ i >= 0
\* the whole while condition; i-- yields the value before the decrement
whileCond(p, i, a, n) == whileHead(p, a, n) /\ i # 0
\* i after the condition was evaluated: i-- runs only when the head is true
iAfterCond(p, i, a, n) == IF whileHead(p, a, n) THEN iDec(i) ELSE i

\* if (p != n-1 && i != s) return 0;
witnessFails(p, i, n) == p # n - 1 /\ i # mrS(n)

\* the while loop of one witness from (p, i); sq counts the squarings
RECURSIVE witnessLoop(_, _, _, _, _)
witnessLoop(p, i, a, n, sq) ==
    IF whileCond(p, i, a, n)
    THEN witnessLoop(modmul(p, p, n), iAfterCond(p, i, a, n), a, n, sq + 1)
    ELSE [p |-> p, i |-> iAfterCond(p, i, a, n), sq |-> sq]

\* the for loop over A from witness k on
RECURSIVE mrFrom(_, _)
mrFrom(n, k) ==
    IF k > Len(A) THEN TRUE
    ELSE LET w == witnessLoop(modpow(A[k] % n, mrD(n), n), mrS(n), A[k], n, 0)
         IN  IF witnessFails(w.p, w.i, n) THEN FALSE ELSE mrFrom(n, k + 1)

miller_rabin(n) == IF mrSmall(n) THEN mrSmallResult(n) ELSE mrFrom(n, 1)

InitMR ==
    /\ mr_n \in 0..MaxMR
    /\ mr_pc = "call"
    /\ mr_k = 0 /\ mr_p = 0 /\ mr_i = 0 /\ mr_sq = 0 /\ mr_p0 = 0
    /\ mr_res = FALSE
    /\ IdleModpow /\ IdleFactor /\ IdleFenwick /\ IdleSieve

MROthers == <<mpvars, fvars, fwvars, svvars>>

\* line 40
MRSmall ==
    /\ mr_pc = "call" /\ mrSmall(mr_n)
    /\ mr_res' = mrSmallResult(mr_n)
    /\ mr_pc' = "done"
    /\ UNCHANGED <<mr_n, mr_k, mr_p, mr_i, mr_sq, mr_p0, MROthers>>

\* lines 41-43: enter the for loop
MRBegin ==
    /\ mr_pc = "call" /\ ~mrSmall(mr_n)
    /\ mr_k' = 1
    /\ mr_pc' = "for"
    /\ UNCHANGED <<mr_n, mr_p, mr_i, mr_sq, mr_p0, mr_res, MROthers>>

\* line 44: ull p = modpow(a%n, d, n), i = s;
MRWitness ==
    /\ mr_pc = "for" /\ mr_k <= Len(A)
    /\ mr_p' = modpow(A[mr_k] % mr_n, mrD(mr_n), mr_n)
    /\ mr_p0' = mr_p'
    /\ mr_i' = mrS(mr_n)
    /\ mr_sq' = 0
    /\ mr_pc' = "while"
    /\ UNCHANGED <<mr_n, mr_k, mr_res, MROthers>>

\* lines 45-46: the condition holds, p = modmul(p, p, n)
MRSquare ==
    /\ mr_pc = "while" /\ whileCond(mr_p, mr_i, A[mr_k], mr_n)
    /\ mr_p' = modmul(mr_p, mr_p, mr_n)
    /\ mr_i' = iAfterCond(mr_p, mr_i, A[mr_k], mr_n)
    /\ mr_sq' = mr_sq + 1
    /\ UNCHANGED <<mr_n, mr_pc, mr_k, mr_p0, mr_res, MROthers>>

\* line 45 false, then line 47: the witness is decided
MRDecide ==
    /\ mr_pc = "while" /\ ~whileCond(mr_p, mr_i, A[mr_k], mr_n)
    /\ mr_i' = iAfterCond(mr_p, mr_i, A[mr_k], mr_n)
    /\ IF witnessFails(mr_p, mr_i', mr_n)
       THEN mr_res' = FALSE /\ mr_pc' = "done" /\ mr_k' = mr_k
       ELSE mr_res' = mr_res /\ mr_pc' = "for" /\ mr_k' = mr_k + 1
    /\ UNCHANGED <<mr_n, mr_p, mr_sq, mr_p0, MROthers>>

\* line 49
MRReturnTrue ==
    /\ mr_pc = "for" /\ mr_k > Len(A)
    /\ mr_res' = TRUE
    /\ mr_pc' = "done"
    /\ UNCHANGED <<mr_n, mr_k, mr_p, mr_i, mr_sq, mr_p0, MROthers>>

NextMR == MRSmall \/ MRBegin \/ MRWitness \/ MRSquare \/ MRDecide \/ MRReturnTrue
SpecMR == InitMR /\ [][NextMR]_vars

\* C2: for every n in [0, MaxMR], miller_rabin(n) returns true exactly when
\* n is prime according to trial division.
C2_MillerRabinIsTrialDivision ==
    mr_pc = "done" => (mr_res = IsPrime(mr_n) /\ miller_rabin(mr_n) = mr_res)

\* C8 as stated: a witness whose first p is neither 1 nor n - 1 is squared
\* at most s - 1 times, where n - 1 = d * 2^s with d odd.
C8_AtMostSMinusOneSquarings ==
    (mr_pc = "while" /\ mr_p0 # 1 /\ mr_p0 # mr_n - 1)
        => mr_sq <= TwoAdic(mr_n - 1) - 1

\* C8 amended: such a witness is squared at most s times.
C8_AtMostSSquarings ==
    (mr_pc = "while" /\ mr_p0 # 1 /\ mr_p0 # mr_n - 1)
        => mr_sq <= TwoAdic(mr_n - 1)

\* a witness that was squared s times and then decided
C8_Witness ==
    /\ mr_pc = "while" /\ mr_p0 # 1 /\ mr_p0 # mr_n - 1
    /\ A[mr_k] % mr_n # 0
    /\ mr_sq = TwoAdic(mr_n - 1) /\ mr_sq >= 2
    /\ ~whileCond(mr_p, mr_i, A[mr_k], mr_n)

\* a composite that only the second witness rejects, and a prime
C2_Witness ==
    /\ mr_pc = "done"
    /\ \/ mr_res = FALSE /\ mr_k = 2 /\ ~mrSmall(mr_n)
       \/ mr_res = TRUE /\ mr_n > 1000

(***************************************************************************)
(* prime.cc: pollard, factor                                               *)
(***************************************************************************)
\* __gcd(a, b): Euclid's algorithm
RECURSIVE gcd(_, _)
gcd(a, b) == IF b = 0 THEN a ELSE gcd(b, a % b)

\* auto f = [n](ull x) { return modmul(x, x, n) + 1; };
f(x, n) == modmul(x, x, n) + 1

\* faulty variant: the loop leaves at the end of a batch whatever the gcd is
pollardCondBatchOnly(t, p, n) == t % 40 # 0
\* while (t++ % 40 || __gcd(prd, n) == 1)
pollardCond(t, p, n) == t % 40 # 0 \/ gcd(p, n) = 1

\* if (x == y) x = ++i, y = f(x);
reseed(x, y) == x = y
xUsed(x, y, i, n) == IF reseed(x, y) THEN i + 1 ELSE x
yUsed(x, y, i, n) == IF reseed(x, y) THEN f(i + 1, n) ELSE y
iUsed(x, y, i) == IF reseed(x, y) THEN i + 1 ELSE i

Max(a, b) == IF a >= b THEN a ELSE b
Min(a, b) == IF a <= b THEN a ELSE b

\* faulty variant: prd = q without the test, so prd may become 0
prdNextNoGuard(p, x, y, n) == modmul(p, Max(x, y) - Min(x, y), n)
\* if ((q = modmul(prd, max(x,y) - min(x,y), n))) prd = q;
prdNext(p, x, y, n) ==
    LET q == modmul(p, Max(x, y) - Min(x, y), n)
    IN  IF q # 0 THEN q ELSE p

\* return __gcd(prd, n);
pollardResult(p, n) == gcd(p, n)

\* faulty variant: prd starts at 1
pollardInitPrdOne == [x |-> 0, y |-> 0, t |-> 30, prd |-> 1, i |-> 1]
\* ull x = 0, y = 0, t = 30, prd = 2, i = 1, q;
pollardInit == [x |-> 0, y |-> 0, t |-> 30, prd |-> 2, i |-> 1]

\* faulty variant: r is not appended
concatLeftOnly(l, r) == l
\* l.insert(l.end(), r.begin(), r.end()); return l;
concat(l, r) == l \o r

Frame(n) == [n |-> n, pc |-> "start", x |-> 0, l |-> <<>>]
Top == stack[Len(stack)]
Pop == SubSeq(stack, 1, Len(stack) - 1)
SetTop(fr) == [stack EXCEPT ![Len(stack)] = fr]
Running == f_pc = "run" /\ stack # <<>>

InitFactor ==
    /\ f_n0 \in 1..MaxFactor
    /\ stack = <<>> /\ ret = <<>> /\ f_pc = "call"
    /\ px = 0 /\ py = 0 /\ pt = 0 /\ prd = 0 /\ pi = 0
    /\ IdleModpow /\ IdleMR /\ IdleFenwick /\ IdleSieve

FOthers == <<mpvars, mrvars, fwvars, svvars>>
plocals == <<px, py, pt, prd, pi>>

\* the caller's factor(n0)
FactorEnter ==
    /\ f_pc = "call"
    /\ stack' = <<Frame(f_n0)>>
    /\ f_pc' = "run"
    /\ UNCHANGED <<f_n0, ret, plocals, FOthers>>

\* a return of the running call with value v
Return(v) ==
    /\ stack' = Pop
    /\ ret' = v
    /\ f_pc' = IF Len(stack) = 1 THEN "done" ELSE f_pc
    /\ UNCHANGED <<f_n0, plocals, FOthers>>

\* line 102
FactorReturnEmpty ==
    /\ Running /\ Top.pc = "start" /\ Top.n = 1
    /\ Return(<<>>)

\* line 103
FactorReturnPrime ==
    /\ Running /\ Top.pc = "start" /\ Top.n # 1 /\ miller_rabin(Top.n)
    /\ Return(<<Top.n>>)

\* line 104 calls pollard; line 93 sets its locals
PollardBegin ==
    /\ Running /\ Top.pc = "start" /\ Top.n # 1 /\ ~miller_rabin(Top.n)
    /\ px' = pollardInit.x /\ py' = pollardInit.y /\ pt' = pollardInit.t
    /\ prd' = pollardInit.prd /\ pi' = pollardInit.i
    /\ stack' = SetTop([Top EXCEPT !.pc = "pollard"])
    /\ UNCHANGED <<f_n0, ret, f_pc, FOthers>>

\* lines 94-98: one iteration of the loop
PollardStep ==
    /\ Running /\ Top.pc = "pollard" /\ pt < MaxT
    /\ pollardCond(pt, prd, Top.n)
    /\ LET n  == Top.n
           x1 == xUsed(px, py, pi, n)
           y1 == yUsed(px, py, pi, n)
       IN  /\ pt' = pt + 1
           /\ pi' = iUsed(px, py, pi)
           /\ prd' = prdNext(prd, x1, y1, n)
           /\ px' = f(x1, n)
           /\ py' = f(f(y1, n), n)
    /\ UNCHANGED <<f_n0, stack, ret, f_pc, FOthers>>

\* line 94 false, line 99, and the assignment to x in line 104
PollardReturn ==
    /\ Running /\ Top.pc = "pollard"
    /\ ~pollardCond(pt, prd, Top.n)
    /\ pt' = pt + 1
    /\ stack' = SetTop([Top EXCEPT !.pc = "gotx", !.x = pollardResult(prd, Top.n)])
    /\ UNCHANGED <<f_n0, ret, f_pc, px, py, prd, pi, FOthers>>

\* line 105: l = factor(x) is called
FactorCallLeft ==
    /\ Running /\ Top.pc = "gotx" /\ Len(stack) < MaxDepth
    /\ stack' = Append(SetTop([Top EXCEPT !.pc = "left"]), Frame(Top.x))
    /\ UNCHANGED <<f_n0, ret, f_pc, plocals, FOthers>>

\* line 105: factor(x) has returned into l, r = factor(n / x) is called
FactorCallRight ==
    /\ Running /\ Top.pc = "left" /\ Len(stack) < MaxDepth
    /\ stack' = Append(SetTop([Top EXCEPT !.pc = "right", !.l = ret]),
                       Frame(Top.n \div Top.x))
    /\ UNCHANGED <<f_n0, ret, f_pc, plocals, FOthers>>

\* lines 106-107: factor(n / x) has returned; l.insert(l.end(), r...), return l
FactorReturnConcat ==
    /\ Running /\ Top.pc = "right"
    /\ Return(concat(Top.l, ret))

NextFactor ==
    \/ FactorEnter \/ FactorReturnEmpty \/ FactorReturnPrime
    \/ PollardBegin \/ PollardStep \/ PollardReturn
    \/ FactorCallLeft \/ FactorCallRight \/ FactorReturnConcat
SpecFactor == InitFactor /\ [][NextFactor]_vars
\* the program runs to completion: a step that can be taken is taken
SpecFactorFair == SpecFactor /\ WF_vars(NextFactor)

\* C1: for every n with 2 <= n <= MaxFactor, the values returned by
\* factor(n) multiply to exactly n and each of them is prime.
C1_FactorProductAndPrimes ==
    (f_pc = "done" /\ f_n0 >= 2)
        => /\ Product(ret) = f_n0
           /\ \A k \in 1..Len(ret) : IsPrime(ret[k])

C1_Witness ==
    f_pc = "done" /\ Len(ret) >= 4 /\ \E j, k \in 1..Len(ret) : ret[j] # ret[k]

\* C3: for every composite n >= 4, whenever pollard(n) returns, the value d
\* it returns divides n and 1 < d < n.
C3_PollardNonTrivialDivisor ==
    (Running /\ Top.pc = "gotx")
        => (Divides(Top.x, Top.n) /\ 1 < Top.x /\ Top.x < Top.n)

C3_Witness ==
    Running /\ Top.pc = "gotx" /\ Top.n = 289 /\ Top.x = 17

\* C4: for every n with 1 <= n <= MaxFactor the call factor(n) terminates:
\* every pollard loop it starts exits and the recursion returns a result.
C4_FactorTerminates == <>(f_pc = "done")

\* 289 = 17 * 17 takes two batches of the loop
C4_Witness == f_pc = "done" /\ f_n0 = 289 /\ pt > 80

\* C9: in every iteration of pollard's loop the x and y that are subtracted
\* and passed to f lie in [1, n], the reseeded x = ++i included.
C9_ResiduesInRange ==
    (Running /\ Top.pc = "pollard" /\ pollardCond(pt, prd, Top.n))
        => /\ 1 <= xUsed(px, py, pi, Top.n) /\ xUsed(px, py, pi, Top.n) <= Top.n
           /\ 1 <= yUsed(px, py, pi, Top.n) /\ yUsed(px, py, pi, Top.n) <= Top.n

\* C10: for every n >= 2 the number of factor calls active at the same time
\* never exceeds floor(log2 n).
C10_DepthAtMostLog2 ==
    f_n0 >= 2 => Len(stack) <= FloorLog2(f_n0)

\* a run in which the recursion is as deep as the bound allows
C10_Witness ==
    f_n0 >= 16 /\ Len(stack) = FloorLog2(f_n0) /\ Top.pc = "start"

(***************************************************************************)
(* Fenwick.cc: a vector v of size k is a function on 0..k-1                *)
(***************************************************************************)
Vals == (-MaxVal)..MaxVal

\* i & -i : the lowest set bit of i > 0
RECURSIVE lowbit(_)
lowbit(i) == IF i % 2 = 1 THEN 1 ELSE 2 * lowbit(i \div 2)

\* faulty variant: the loop of upd stops one element early
RECURSIVE updLoopShort(_, _, _, _)
updLoopShort(d, i, val, n) ==
    IF i < n - 1
    THEN updLoopShort([d EXCEPT ![i] = @ + val], i + lowbit(i), val, n)
    ELSE d

\* for (int i = idx; i < len; i += i & -i) data[i] += val;
RECURSIVE updLoop(_, _, _, _)
updLoop(d, i, val, n) ==
    IF i < n THEN updLoop([d EXCEPT ![i] = @ + val], i + lowbit(i), val, n)
    ELSE d

\* void upd(int idx, T val)
upd(d, idx, val, n) == updLoop(d, idx, val, n)

\* T get(int idx): res = 0; for (int i = idx; i > 0; i -= i & -i) res += data[i];
RECURSIVE get(_, _)
get(d, idx) == IF idx > 0 THEN d[idx] + get(d, idx - lowbit(idx)) ELSE 0

\* Fenwick(int _len) : data(_len+1), len(_len + 1) {}
newData(L) == [k \in 0..L |-> 0]

\* Fenwick(vector<T>& input): for (int i = 1; i < len; i++) upd(i, input[i - 1]);
\* (input is the sequence input[0], input[1], ... written from index 1)
RECURSIVE ctorLoop(_, _, _, _)
ctorLoop(d, i, input, n) ==
    IF i < n THEN ctorLoop(upd(d, i, input[i], n), i + 1, input, n)
    ELSE d

\* the reference array: the sum of its positions 1..idx
RECURSIVE RefSum(_, _)
RefSum(r, idx) == IF idx = 0 THEN 0 ELSE r[idx] + RefSum(r, idx - 1)

InitFenwick ==
    /\ data = <<>> /\ len = 0 /\ ref = <<>> /\ nupd = 0
    /\ IdleModpow /\ IdleMR /\ IdleFactor /\ IdleSieve

FWOthers == <<mpvars, mrvars, fvars, svvars>>

\* lines 10-11
FenwickNew ==
    /\ len = 0
    /\ \E L \in 0..MaxLen :
          /\ data' = newData(L)
          /\ len' = L + 1
          /\ ref' = [k \in 1..L |-> 0]
    /\ UNCHANGED <<nupd, FWOthers>>

\* lines 13-18
FenwickFromInput ==
    /\ len = 0
    /\ \E L \in 0..MaxLen : \E input \in [1..L -> Vals] :
          /\ data' = ctorLoop(newData(L), 1, input, L + 1)
          /\ len' = L + 1
          /\ ref' = input
    /\ UNCHANGED <<nupd, FWOthers>>

\* lines 20-25, called with 1 <= idx <= L
FenwickUpd ==
    /\ len > 0 /\ nupd < MaxUpd
    /\ \E idx \in 1..(len - 1) : \E val \in Vals :
          /\ data' = upd(data, idx, val, len)
          /\ ref' = [ref EXCEPT ![idx] = @ + val]
    /\ nupd' = nupd + 1
    /\ UNCHANGED <<len, FWOthers>>

NextFenwick == FenwickNew \/ FenwickFromInput \/ FenwickUpd
SpecFenwick == InitFenwick /\ [][NextFenwick]_vars

\* C6: for a Fenwick tree of length L built by either constructor, after any
\* sequence of upd(idx, val) with 1 <= idx <= L, get(idx) for every
\* 0 <= idx <= L is the sum of positions 1..idx of the reference array.
C6_GetIsPrefixSum ==
    len > 0 => \A idx \in 0..(len - 1) : get(data, idx) = RefSum(ref, idx)

\* a tree of four elements, built from a vector, after an update, whose
\* prefix sums are not all equal
C6_Witness ==
    /\ len = 5 /\ nupd >= 1
    /\ ref[1] # 0 /\ ref[3] # 0
    /\ get(data, 4) # get(data, 2)

(***************************************************************************)
(* isieve.cc: the linear sieve over the globals primes, spf, is_prime      *)
(***************************************************************************)
size(v) == Cardinality(DOMAIN v)

\* v.resize(k, fill): the old elements are kept, new ones are fill
resize(v, k, fill) == [j \in 0..(k - 1) |-> IF j < size(v) THEN v[j] ELSE fill]

\* line 19-22: the inner loop from index j (primes[j] is primes[j + 1] here)
RECURSIVE sieveInner(_, _, _, _)
sieveInner(st, i, j, N) ==
    IF j < Len(st.primes) /\ st.primes[j + 1] <= st.spf[i]
                          /\ i * st.primes[j + 1] <= N
    THEN sieveInner([st EXCEPT !.is_prime[i * st.primes[j + 1]] = FALSE,
                               !.spf[i * st.primes[j + 1]] = st.primes[j + 1]],
                    i, j + 1, N)
    ELSE st

\* lines 14-23: the outer loop from i
RECURSIVE sieveOuter(_, _, _)
sieveOuter(st, i, N) ==
    IF i <= N
    THEN LET s1 == IF st.is_prime[i]
                   THEN [st EXCEPT !.spf[i] = i, !.primes = Append(@, i)]
                   ELSE st
         IN  sieveOuter(sieveInner(s1, i, 0, N), i + 1, N)
    ELSE st

\* void sieve(int N), N >= 1, on the globals st
sieve(st, N) ==
    LET ip == resize(st.is_prime, N + 1, TRUE)
        sp == resize(st.spf, N + 1, 0)
        s0 == [primes |-> st.primes, spf |-> sp,
               is_prime |-> [ip EXCEPT ![0] = FALSE, ![1] = FALSE]]
    IN  sieveOuter(s0, 2, N)

\* the primes <= N in ascending order
RECURSIVE PrimesUpTo(_)
PrimesUpTo(N) ==
    IF N < 2 THEN <<>>
    ELSE IF IsPrime(N) THEN Append(PrimesUpTo(N - 1), N) ELSE PrimesUpTo(N - 1)

InitSieve ==
    /\ primes = <<>> /\ spf = <<>> /\ is_prime = <<>>
    /\ sv_N = 0 /\ ncalls = 0
    /\ IdleModpow /\ IdleMR /\ IdleFactor /\ IdleFenwick

SieveCall ==
    /\ ncalls < MaxCalls
    /\ \E N \in 1..MaxSieve :
          LET st == sieve([primes |-> primes, spf |-> spf, is_prime |-> is_prime], N)
          IN  /\ primes' = st.primes
              /\ spf' = st.spf
              /\ is_prime' = st.is_prime
              /\ sv_N' = N
    /\ ncalls' = ncalls + 1
    /\ UNCHANGED <<mpvars, mrvars, fvars, fwvars>>

NextSieve == SieveCall
SpecSieve == InitSieve /\ [][NextSieve]_vars

\* C7: after any sequence of calls sieve(N1), ..., sieve(Nk), each Ni >= 1,
\* primes holds exactly the primes <= Nk, each once and in ascending order.
C7_PrimesResetPerCall ==
    ncalls >= 1 => primes = PrimesUpTo(sv_N)

\* The first call on fresh globals does produce the primes <= N.
SieveFirstCallCorrect ==
    ncalls = 1 => primes = PrimesUpTo(sv_N)
=============================================================================
